---------------------------- MODULE Spec2Model ----------------------------
(***************************************************************************)
(* A model of the marker / coordinate subsystem of green-eye-putt-pro:     *)
(*   - CameraCapture.tsx  (live capture screen, second component of the    *)
(*     file, lines 278-926): tap / long-press-drag marker placement,       *)
(*     level indicator, still capture, review, hand-off;                   *)
(*   - MarkerSelection.tsx (still-image marker screen, lines 11-268);      *)
(*   - AnalysisResults.tsx createPuttingPath (break path).                 *)
(*                                                                         *)
(* JavaScript numbers are modelled as exact real numbers of the form       *)
(* a + b*sqrt(m) (a, b rational), together with the IEEE special values    *)
(* NaN, +Infinity and -Infinity that a division by zero produces.          *)
(* Rounding of doubles and the sign of zero are not modelled.              *)
(*                                                                         *)
(* Every React event handler is one atomic action: it reads the state of   *)
(* the render it was created in and its state updates are committed        *)
(* together (React batches the setState calls of one event).               *)
(***************************************************************************)
EXTENDS Integers, Sequences, FiniteSets, TLC

-----------------------------------------------------------------------------
(* Bounds of the model                                                     *)

\* number of distinct tap positions the pointer can take on a surface
MaxPoint == 2
\* number of distinct sizes the capture surface can take
MaxSurface == 2
\* number of distinct intrinsic sizes a captured image can have
MaxImage == 2
\* number of start (and of stop) requests that can be in flight at once
MaxPending == 1
\* orientation readings range over MaxTilt steps of 10 degrees either way
MaxTilt == 2
\* number of level evaluations recorded while the camera is active
MaxSeen == 3
\* largest coordinate of the points fed to the pure conversions
MaxCoord == 3
\* longest text the AI gateway returns as the content of its answer
MaxText == 3
\* analyze-green requests sent by one AnalysisResults
MaxRequests == 3

-----------------------------------------------------------------------------
(* Rational numbers <<n, d>>, d > 0, in lowest terms                       *)

Abs(x) == IF x < 0 THEN -x ELSE x

RECURSIVE GCD(_, _)
GCD(a, b) == IF b = 0 THEN a ELSE GCD(b, a % b)

RNorm(n, d) ==
  LET s == IF d < 0 THEN -1 ELSE 1
      g == GCD(Abs(n), Abs(d))
  IN  IF n = 0 THEN <<0, 1>> ELSE <<(s * n) \div g, (s * d) \div g>>

RZero == <<0, 1>>
RInt(i) == <<i, 1>>
RAdd(p, q) == RNorm(p[1] * q[2] + q[1] * p[2], p[2] * q[2])
RNeg(p) == <<-p[1], p[2]>>
RSub(p, q) == RAdd(p, RNeg(q))
RMul(p, q) == RNorm(p[1] * q[1], p[2] * q[2])
\* q # 0
RDiv(p, q) == RNorm(p[1] * q[2], p[2] * q[1])
RSign(p) == IF p[1] > 0 THEN 1 ELSE IF p[1] < 0 THEN -1 ELSE 0

-----------------------------------------------------------------------------
(* JavaScript numbers: [k, a, b, m]                                        *)
(*   k = "fin": the real a + b*sqrt(m); b = 0 implies m = 0, and m is      *)
(*              square-free when b # 0                                     *)
(*   k = "nan", "inf", "ninf": NaN, +Infinity, -Infinity                   *)

Fin(a, b, m) == IF b = RZero THEN [k |-> "fin", a |-> a, b |-> RZero, m |-> 0]
                ELSE [k |-> "fin", a |-> a, b |-> b, m |-> m]
Rat(n, d) == Fin(RNorm(n, d), RZero, 0)
Int2Num(i) == Rat(i, 1)
NaN == [k |-> "nan", a |-> RZero, b |-> RZero, m |-> 0]
PosInf == [k |-> "inf", a |-> RZero, b |-> RZero, m |-> 0]
NegInf == [k |-> "ninf", a |-> RZero, b |-> RZero, m |-> 0]

IsFinite(x) == x.k = "fin"
IsZero(x) == x.k = "fin" /\ x.a = RZero /\ x.b = RZero

\* the radicand two finite operands share (operands with b # 0 always come
\* from the one Math.sqrt of a computation)
Radicand(x, y) == IF x.b # RZero THEN x.m ELSE y.m

\* sign of a + b*sqrt(m)
NSign(x) ==
  IF x.k = "inf" THEN 1
  ELSE IF x.k = "ninf" THEN -1
  ELSE IF x.k = "nan" THEN 0
  ELSE LET sa == RSign(x.a)
           sb == RSign(x.b)
           a2 == RMul(x.a, x.a)
           b2m == RMul(RMul(x.b, x.b), RInt(x.m))
       IN  IF sb = 0 THEN sa
           ELSE IF sa = 0 THEN sb
           ELSE IF sa = sb THEN sa
           ELSE IF RSign(RSub(a2, b2m)) > 0 THEN sa ELSE sb

InfOfSign(s) == IF s > 0 THEN PosInf ELSE IF s < 0 THEN NegInf ELSE NaN

NNeg(x) ==
  IF x.k = "fin" THEN Fin(RNeg(x.a), RNeg(x.b), x.m)
  ELSE InfOfSign(-NSign(x))

\* x + y
NAdd(x, y) ==
  IF x.k = "nan" \/ y.k = "nan" THEN NaN
  ELSE IF x.k = "fin" /\ y.k = "fin"
       THEN Fin(RAdd(x.a, y.a), RAdd(x.b, y.b), Radicand(x, y))
  ELSE IF x.k = "fin" THEN y
  ELSE IF y.k = "fin" THEN x
  ELSE IF x.k = y.k THEN x ELSE NaN

\* x - y
NSub(x, y) == NAdd(x, NNeg(y))

\* x * y
NMul(x, y) ==
  IF x.k = "nan" \/ y.k = "nan" THEN NaN
  ELSE IF x.k = "fin" /\ y.k = "fin"
       THEN LET m == Radicand(x, y)
            IN  Fin(RAdd(RMul(x.a, y.a), RMul(RMul(x.b, y.b), RInt(m))),
                    RAdd(RMul(x.a, y.b), RMul(x.b, y.a)),
                    m)
  ELSE InfOfSign(NSign(x) * NSign(y))

\* x / y
NDiv(x, y) ==
  IF x.k = "nan" \/ y.k = "nan" THEN NaN
  ELSE IF x.k # "fin" /\ y.k # "fin" THEN NaN
  ELSE IF x.k # "fin"
       THEN InfOfSign(NSign(x) * (IF NSign(y) < 0 THEN -1 ELSE 1))
  ELSE IF y.k # "fin" THEN Int2Num(0)
  ELSE IF IsZero(y) THEN InfOfSign(NSign(x))
  ELSE LET m == Radicand(x, y)
           \* 1 / (a + b sqrt m) = (a - b sqrt m) / (a^2 - b^2 m)
           den == RSub(RMul(y.a, y.a), RMul(RMul(y.b, y.b), RInt(m)))
           inv == Fin(RDiv(y.a, den), RDiv(RNeg(y.b), den), m)
       IN  NMul(x, inv)

\* the r in lo..hi with r*r <= n < (r+1)*(r+1), by bisection
RECURSIVE IntSqrt(_, _, _)
IntSqrt(n, lo, hi) ==
  IF lo >= hi THEN lo
  ELSE LET mid == (lo + hi + 1) \div 2
       IN  IF mid * mid <= n THEN IntSqrt(n, mid, hi) ELSE IntSqrt(n, lo, mid - 1)

\* largest s with s*s dividing n (n > 0)
SquarePart(n) ==
  LET r == IntSqrt(n, 0, IF n < 46340 THEN n ELSE 46340)
      S == {s \in 1..r : n % (s * s) = 0}
  IN  CHOOSE s \in S : \A t \in S : t <= s

\* Math.sqrt(x), x rational
NSqrt(x) ==
  IF x.k = "nan" \/ x.k = "ninf" THEN NaN
  ELSE IF x.k = "inf" THEN PosInf
  ELSE IF RSign(x.a) < 0 THEN NaN
  ELSE IF RSign(x.a) = 0 THEN Int2Num(0)
  ELSE LET nd == x.a[1] * x.a[2]        \* sqrt(n/d) = sqrt(n*d) / d
           s == SquarePart(nd)
           t == nd \div (s * s)
       IN  IF t = 1 THEN Rat(s, x.a[2])
           ELSE Fin(RZero, RNorm(s, x.a[2]), t)

-----------------------------------------------------------------------------
(* Values                                                                  *)

\* null / a value: << >> / <<v>>
Null == << >>
Some(v) == <<v>>
Val(o) == o[1]

Markers == {"ball", "hole"}

Pt(x, y) == [x |-> Int2Num(x), y |-> Int2Num(y)]
Dim(w, h) == [width |-> Int2Num(w), height |-> Int2Num(h)]

-----------------------------------------------------------------------------
(* Coordinate conversions                                                  *)

\* ViewToImage with the scale factors the wrong way up
ViewToImage_Inverted(pos, viewportDimensions, imageMetadata) ==
  LET scaleX == NDiv(viewportDimensions.width, imageMetadata.width)
      scaleY == NDiv(viewportDimensions.height, imageMetadata.height)
  IN  [x |-> NMul(pos.x, scaleX), y |-> NMul(pos.y, scaleY)]

\* confirmCapture, lines 534-546: viewport pixels -> image pixels
ViewToImage(pos, viewportDimensions, imageMetadata) ==
  LET scaleX == NDiv(imageMetadata.width, viewportDimensions.width)
      scaleY == NDiv(imageMetadata.height, viewportDimensions.height)
  IN  [x |-> NMul(pos.x, scaleX), y |-> NMul(pos.y, scaleY)]

\* ImageToDisplay scaling both axes by the horizontal factor
ImageToDisplay_OneScale(pos, imageMetadata, displayDimensions) ==
  LET scaleX == NDiv(displayDimensions.width, imageMetadata.width)
  IN  [x |-> NMul(pos.x, scaleX), y |-> NMul(pos.y, scaleX)]

\* createPuttingPath, lines 402-409: image pixels -> display pixels
ImageToDisplay(pos, imageMetadata, displayDimensions) ==
  LET scaleX == NDiv(displayDimensions.width, imageMetadata.width)
      scaleY == NDiv(displayDimensions.height, imageMetadata.height)
  IN  [x |-> NMul(pos.x, scaleX), y |-> NMul(pos.y, scaleY)]

\* the break fraction 0.15 of createPuttingPath, as 15 / 100
BreakPercent == 15

\* createPuttingPath, in the three steps the path "M ballX ballY Q controlX
\* controlY holeX holeY" is built in
\* lines 402-409: the markers in display pixels
PathEnds(markers, imageMetadata, displayDimensions) ==
  [ball |-> ImageToDisplay(markers.ball, imageMetadata, displayDimensions),
   hole |-> ImageToDisplay(markers.hole, imageMetadata, displayDimensions)]

\* lines 416-418: Math.sqrt(dx * dx + dy * dy)
PathLength(ball, hole) ==
  LET dx == NSub(hole.x, ball.x)
      dy == NSub(hole.y, ball.y)
  IN  NSqrt(NAdd(NMul(dx, dx), NMul(dy, dy)))

\* PathControl with the offset turned to the other side of the line
PathControl_OtherSide(ball, hole, length) ==
  LET two == Int2Num(2)
      midX == NDiv(NAdd(ball.x, hole.x), two)
      midY == NDiv(NAdd(ball.y, hole.y), two)
      dx == NSub(hole.x, ball.x)
      dy == NSub(hole.y, ball.y)
      breakAmount == NMul(length, Rat(BreakPercent, 100))
  IN  [x |-> NSub(midX, NMul(NDiv(dy, length), breakAmount)),
       y |-> NAdd(midY, NMul(NDiv(dx, length), breakAmount))]

\* lines 412-413 and 419-422: the control point of the curve
PathControl(ball, hole, length) ==
  LET two == Int2Num(2)
      midX == NDiv(NAdd(ball.x, hole.x), two)
      midY == NDiv(NAdd(ball.y, hole.y), two)
      dx == NSub(hole.x, ball.x)
      dy == NSub(hole.y, ball.y)
      breakAmount == NMul(length, Rat(BreakPercent, 100))
  IN  [x |-> NAdd(midX, NMul(NDiv(dy, length), breakAmount)),
       y |-> NSub(midY, NMul(NDiv(dx, length), breakAmount))]

-----------------------------------------------------------------------------
(* Level indicator (CameraCapture.tsx)                                     *)

\* thresholds of getLevelStatus, in degrees
NeutralPitch == 90
GoodLimit == 10
OkLimit == 20

\* handleOrientation: pitch: event.beta || 90, roll: event.gamma || 0
\* (a JavaScript 0 is falsy, so a reading of 0 takes the default)
handleOrientation(beta, gamma) ==
  [pitch |-> IF beta = 0 THEN NeutralPitch ELSE beta,
   roll |-> IF gamma = 0 THEN 0 ELSE gamma]

\* getLevelStatus().status for a stored deviceOrientation
getLevelStatus(deviceOrientation) ==
  LET absRoll == Abs(deviceOrientation.roll)
      absPitch == Abs(deviceOrientation.pitch - NeutralPitch)
  IN  IF absRoll < GoodLimit /\ absPitch < GoodLimit THEN "good"
      ELSE IF absRoll < OkLimit /\ absPitch < OkLimit THEN "ok"
      ELSE "bad"

\* HapticFires without the comparison with the last emitted status
HapticFires_EverySample(isCameraActive, status, lastHapticStatus) ==
  isCameraActive

\* the guard of the haptic effect: does this run of the effect pulse?
HapticFires(isCameraActive, status, lastHapticStatus) ==
  isCameraActive /\ status # lastHapticStatus

\* the impact style the haptic effect uses for a status
ImpactStyle(status) ==
  IF status = "good" THEN "Light" ELSE IF status = "ok" THEN "Medium" ELSE "Heavy"

-----------------------------------------------------------------------------
(* CameraCapture: component state                                          *)

\* the state hooks and refs of CameraCapture after mount
CamInit ==
  [showInstructions |-> TRUE,
   isCameraActive |-> FALSE,
   isLoading |-> FALSE,
   ballViewportPos |-> Null,
   holeViewportPos |-> Null,
   ballPreviewPos |-> Null,
   holePreviewPos |-> Null,
   capturedImageData |-> Null,
   imageMetadata |-> Null,
   viewportDimensions |-> Null,
   deviceOrientation |-> [pitch |-> 90, roll |-> 0],
   isDragging |-> "null",
   longPressTimer |-> "null",
   lastHapticStatus |-> "",
   isCameraLoading |-> FALSE,
   touchPosition |-> Null]

\* which branch of the render is shown (lines 556, 625, 727)
ReviewShown(c) ==
  ~c.showInstructions /\ c.capturedImageData # Null /\ c.imageMetadata # Null
SurfaceShown(c) == ~c.showInstructions /\ ~ReviewShown(c)

MarkerPos(c, marker) ==
  IF marker = "ball" THEN c.ballViewportPos ELSE c.holeViewportPos
\* the marker elements of the capture surface (lines 833, 853)
MarkerShown(c, marker) == SurfaceShown(c) /\ MarkerPos(c, marker) # Null
\* the capture and reset buttons (lines 894, 909)
CaptureButtonShown(c) ==
  SurfaceShown(c) /\ c.ballViewportPos # Null /\ c.holeViewportPos # Null
ResetButtonShown(c) ==
  SurfaceShown(c) /\ (c.ballViewportPos # Null \/ c.holeViewportPos # Null)

\* the magnifier of the capture surface (line 741)
MagnifierShown(c) ==
  /\ SurfaceShown(c) /\ c.touchPosition # Null
  /\ c.ballViewportPos = Null \/ c.holeViewportPos = Null

\* the haptic effect (deps [deviceOrientation, isCameraActive]) on the state
\* `acc` a handler produced from the rendered state `pre`
HapticEffectRuns(pre, acc, sampled) ==
  sampled \/ acc.isCameraActive # pre.isCameraActive
HapticPulse(pre, acc, sampled) ==
  /\ HapticEffectRuns(pre, acc, sampled)
  /\ HapticFires(acc.isCameraActive, getLevelStatus(acc.deviceOrientation),
                 acc.lastHapticStatus)
HapticEffect(pre, acc, sampled) ==
  IF HapticPulse(pre, acc, sampled)
  THEN [acc EXCEPT !.lastHapticStatus = getLevelStatus(acc.deviceOrientation)]
  ELSE acc

-----------------------------------------------------------------------------
(* CameraCapture: event handlers.  `pre` is the state of the render the    *)
(* handler closes over, `acc` the state with the updates queued so far in  *)
(* this event; the result is `acc` with the handler's updates applied.     *)

\* the common guard of the surface handlers (lines 402, 425)
SurfaceHandlerReturns(pre) ==
  ~pre.isCameraActive \/ pre.capturedImageData # Null \/ pre.isDragging # "null"

\* PlaceMarker filling the hole before the ball
PlaceMarker_HoleFirst(pre, acc, pos) ==
  IF pre.holeViewportPos = Null
  THEN [acc EXCEPT !.holeViewportPos = Some(pos)]
  ELSE IF pre.ballViewportPos = Null
       THEN [acc EXCEPT !.ballViewportPos = Some(pos)]
       ELSE acc

\* the ball-then-hole placement of handleScreenClick / handleTouchEnd
PlaceMarker(pre, acc, pos) ==
  IF pre.ballViewportPos = Null
  THEN [acc EXCEPT !.ballViewportPos = Some(pos)]
  ELSE IF pre.holeViewportPos = Null
       THEN [acc EXCEPT !.holeViewportPos = Some(pos)]
       ELSE acc

StoreViewportDimensions(pre, acc, rectDim) ==
  IF pre.viewportDimensions = Null
  THEN [acc EXCEPT !.viewportDimensions = Some(rectDim)]
  ELSE acc

handleScreenClick(pre, acc, pos, rectDim) ==
  IF SurfaceHandlerReturns(pre) THEN acc
  ELSE PlaceMarker(pre, StoreViewportDimensions(pre, acc, rectDim), pos)

\* handleTouchStart placing the marker at once
handleTouchStart_PlacesMarker(pre, acc, pos, rectDim) ==
  IF SurfaceHandlerReturns(pre) THEN acc
  ELSE PlaceMarker(pre,
         StoreViewportDimensions(pre, [acc EXCEPT !.touchPosition = Some(pos)],
                                 rectDim), pos)

handleTouchStart(pre, acc, pos, rectDim) ==
  IF SurfaceHandlerReturns(pre) THEN acc
  ELSE StoreViewportDimensions(pre, [acc EXCEPT !.touchPosition = Some(pos)],
                               rectDim)

handleTouchMoveForMagnifier(pre, acc, pos) ==
  IF SurfaceHandlerReturns(pre) \/ pre.touchPosition = Null THEN acc
  ELSE [acc EXCEPT !.touchPosition = Some(pos)]

handleTouchEnd(pre, acc) ==
  IF SurfaceHandlerReturns(pre) \/ pre.touchPosition = Null THEN acc
  ELSE [PlaceMarker(pre, acc, Val(pre.touchPosition))
          EXCEPT !.touchPosition = Null]

\* the setTimeout of handleMarkerTouchStart: the ref now names the new timer
handleMarkerTouchStart(acc, marker) ==
  [acc EXCEPT !.longPressTimer = marker]

\* the callback of the long-press timer
LongPressCallback(acc, marker) == [acc EXCEPT !.isDragging = marker]

handleMarkerTouchEnd(pre, acc) ==
  [acc EXCEPT !.longPressTimer = "null", !.isDragging = "null"]

\* handleMarkerTouchMove writing the marker that is not dragged
handleMarkerTouchMove_Swapped(pre, acc, pos) ==
  IF pre.isDragging = "null" THEN acc
  ELSE IF pre.isDragging = "ball"
       THEN [acc EXCEPT !.holeViewportPos = Some(pos)]
       ELSE [acc EXCEPT !.ballViewportPos = Some(pos)]

handleMarkerTouchMove(pre, acc, pos) ==
  IF pre.isDragging = "null" THEN acc
  ELSE IF pre.isDragging = "ball"
       THEN [acc EXCEPT !.ballViewportPos = Some(pos)]
       ELSE [acc EXCEPT !.holeViewportPos = Some(pos)]

handleResetMarkers(pre, acc) ==
  [acc EXCEPT !.ballViewportPos = Null,
              !.holeViewportPos = Null,
              !.ballPreviewPos = Null,
              !.holePreviewPos = Null]

\* captureImage returns at once unless both markers are set (line 506)
CaptureImageReturns(pre) ==
  pre.ballViewportPos = Null \/ pre.holeViewportPos = Null
\* captureImage up to its first await: setIsLoading(true)
captureImage(pre, acc) ==
  IF CaptureImageReturns(pre) THEN acc ELSE [acc EXCEPT !.isLoading = TRUE]

\* img.onload of captureImage (lines 516-521)
CaptureOnLoad(acc, imageDim) ==
  [acc EXCEPT !.imageMetadata = Some(imageDim),
              !.capturedImageData = Some("jpeg"),
              !.isLoading = FALSE]

\* confirmCapture returns at once unless all five values are set (line 532)
ConfirmCaptureReturns(pre) ==
  \/ pre.capturedImageData = Null
  \/ pre.imageMetadata = Null
  \/ pre.ballViewportPos = Null
  \/ pre.holeViewportPos = Null
  \/ pre.viewportDimensions = Null

\* the arguments confirmCapture passes to onCapture
confirmCapture(pre) ==
  [imageData |-> Val(pre.capturedImageData),
   ball |-> ViewToImage(Val(pre.ballViewportPos), Val(pre.viewportDimensions),
                        Val(pre.imageMetadata)),
   hole |-> ViewToImage(Val(pre.holeViewportPos), Val(pre.viewportDimensions),
                        Val(pre.imageMetadata)),
   imageMetadata |-> Val(pre.imageMetadata)]

\* onLoad of the review image (lines 633-659): preview positions
PreviewPos(pos, viewportDimensions, imageMetadata, rectDim) ==
  LET imageX == NMul(NDiv(pos.x, viewportDimensions.width), imageMetadata.width)
      imageY == NMul(NDiv(pos.y, viewportDimensions.height), imageMetadata.height)
  IN  [x |-> NMul(NDiv(imageX, imageMetadata.width), rectDim.width),
       y |-> NMul(NDiv(imageY, imageMetadata.height), rectDim.height)]

ReviewOnLoad(pre, acc, rectDim) ==
  LET a1 == IF pre.ballViewportPos # Null /\ pre.viewportDimensions # Null
            THEN [acc EXCEPT !.ballPreviewPos =
                    Some(PreviewPos(Val(pre.ballViewportPos),
                                    Val(pre.viewportDimensions),
                                    Val(pre.imageMetadata), rectDim))]
            ELSE acc
  IN  IF pre.holeViewportPos # Null /\ pre.viewportDimensions # Null
      THEN [a1 EXCEPT !.holePreviewPos =
              Some(PreviewPos(Val(pre.holeViewportPos),
                              Val(pre.viewportDimensions),
                              Val(pre.imageMetadata), rectDim))]
      ELSE a1

\* RetakeClick leaving the view dimensions as they were
RetakeClick_KeepsViewDimensions(pre, acc) ==
  [acc EXCEPT !.capturedImageData = Null,
              !.imageMetadata = Null,
              !.ballViewportPos = Null,
              !.holeViewportPos = Null,
              !.ballPreviewPos = Null,
              !.holePreviewPos = Null]

\* onClick of the retake button (lines 709-718), before startCamera()
RetakeClick(pre, acc) ==
  [acc EXCEPT !.capturedImageData = Null,
              !.imageMetadata = Null,
              !.ballViewportPos = Null,
              !.holeViewportPos = Null,
              !.ballPreviewPos = Null,
              !.holePreviewPos = Null,
              !.viewportDimensions = Null]

\* onClick of the cancel button (lines 876-885)
CancelClick(pre, acc) ==
  [acc EXCEPT !.showInstructions = TRUE,
              !.ballViewportPos = Null,
              !.holeViewportPos = Null,
              !.ballPreviewPos = Null,
              !.holePreviewPos = Null,
              !.capturedImageData = Null,
              !.imageMetadata = Null,
              !.viewportDimensions = Null]

\* onClick of the continue button (line 611) and the body of the lifecycle
\* effect it triggers (line 301)
ContinueClick(pre, acc) ==
  [acc EXCEPT !.showInstructions = FALSE, !.isCameraLoading = TRUE]

\* startCamera after CameraPreview.start settles (lines 384-388)
StartCameraSettled(acc, ok) ==
  IF ok THEN [acc EXCEPT !.isCameraActive = TRUE, !.isCameraLoading = FALSE]
  ELSE [acc EXCEPT !.isCameraLoading = FALSE]

\* stopCamera after CameraPreview.stop settles (lines 394-397)
StopCameraSettled(acc, ok) ==
  IF ok THEN [acc EXCEPT !.isCameraActive = FALSE] ELSE acc

-----------------------------------------------------------------------------
(* MarkerSelection: component state and event handlers                     *)

SelInit ==
  [ballPosition |-> Null,
   holePosition |-> Null,
   touchPosition |-> Null,
   isDragging |-> FALSE,
   draggedMarker |-> "null",
   longPressTimerRef |-> "null"]

MS_MarkerPos(c, marker) ==
  IF marker = "ball" THEN c.ballPosition ELSE c.holePosition
\* the marker elements (lines 181, 197) and the reset button (line 245)
MS_MarkerShown(c, marker) == MS_MarkerPos(c, marker) # Null
MS_ResetButtonShown(c) == c.ballPosition # Null \/ c.holePosition # Null

MS_PlaceMarker(pre, acc, pos) ==
  IF pre.ballPosition = Null
  THEN [acc EXCEPT !.ballPosition = Some(pos)]
  ELSE IF pre.holePosition = Null
       THEN [acc EXCEPT !.holePosition = Some(pos)]
       ELSE acc

MS_handleImageClick(pre, acc, pos) ==
  IF pre.isDragging THEN acc ELSE MS_PlaceMarker(pre, acc, pos)

MS_handleTouchStart(pre, acc, pos) ==
  IF pre.isDragging THEN acc ELSE [acc EXCEPT !.touchPosition = Some(pos)]

MS_handleTouchMove(pre, acc, pos) ==
  LET moved == IF ~pre.isDragging THEN acc
               ELSE IF pre.draggedMarker = "ball"
                    THEN [acc EXCEPT !.ballPosition = Some(pos)]
               ELSE IF pre.draggedMarker = "hole"
                    THEN [acc EXCEPT !.holePosition = Some(pos)]
               ELSE acc
  IN  [moved EXCEPT !.touchPosition = Some(pos)]

MS_handleTouchEnd(pre, acc) ==
  LET cleared == [acc EXCEPT !.longPressTimerRef = "null"]
  IN  IF pre.isDragging
      THEN [cleared EXCEPT !.isDragging = FALSE,
                           !.draggedMarker = "null",
                           !.touchPosition = Null]
      ELSE IF pre.touchPosition # Null
           THEN [MS_PlaceMarker(pre, cleared, Val(pre.touchPosition))
                   EXCEPT !.touchPosition = Null]
           ELSE [cleared EXCEPT !.touchPosition = Null]

MS_handleMarkerTouchStart(acc, marker) ==
  [acc EXCEPT !.longPressTimerRef = marker]

MS_LongPressCallback(acc, marker) ==
  [acc EXCEPT !.isDragging = TRUE, !.draggedMarker = marker]

MS_handleResetMarkers(pre, acc) ==
  [acc EXCEPT !.ballPosition = Null, !.holePosition = Null]

-----------------------------------------------------------------------------
(* Inputs                                                                  *)

\* the positions a pointer event can report, relative to the surface
PointAt(i) ==
  IF i = 1 THEN Pt(100, 100)
  ELSE IF i = 2 THEN Pt(900, 700)
  ELSE Pt(100 * i, 50 * i)
TapPoints == {PointAt(i) : i \in 1..MaxPoint}

\* the sizes getBoundingClientRect can report for the capture surface
SurfaceAt(i) ==
  IF i = 1 THEN Dim(1000, 800) ELSE Dim(1000 + 200 * i, 800 + 100 * i)
Surfaces == {SurfaceAt(i) : i \in 1..MaxSurface}

\* the intrinsic sizes of a captured image
ImageAt(i) ==
  IF i = 1 THEN Dim(3000, 2400) ELSE Dim(2000 * i, 1500 * i)
ImageSizes == {ImageAt(i) : i \in 1..MaxImage}

\* the size at which the review image is laid out (object-contain)
ReviewRect(imageDim) ==
  [width |-> NDiv(imageDim.width, Int2Num(4)),
   height |-> NDiv(imageDim.height, Int2Num(4))]

-----------------------------------------------------------------------------
(* State                                                                   *)

VARIABLES
  screen,        \* the mounted screen: "capture", "selection" or "results"
  cam,           \* the state of CameraCapture
  sel,           \* the state of MarkerSelection
  touch,         \* where the active touch began: "none", "surface", "ball",
                 \* "hole", or "detached" once that element left the document
  leakedTimers,  \* pending long-press timers the timer ref no longer names
  cameraRunning, \* the native camera preview is running
  startPending,  \* CameraPreview.start calls in flight
  stopPending,   \* CameraPreview.stop calls in flight
  capturePhase,  \* "idle", "capturing" (CameraPreview.capture in flight),
                 \* "decoding" (img.src set, onload pending), "lost"
  page,          \* the state of Index: capturedImage, markers, imageMetadata
  motionPending, \* the startMotionTracking calls awaiting requestPermission:
                 \* "current" (this run of the lifecycle effect), "stale"
  listening,     \* the registered deviceorientation listeners, named alike
  lastSample,    \* the last orientation event delivered, << >> if none
  seenTiers,     \* the statuses the haptic effect saw while the camera was active
  pulses,        \* the level-feedback impacts emitted, in order
  fn             \* inputs and results of the pure functions under test

vars == <<screen, cam, sel, touch, leakedTimers, cameraRunning,
          startPending, stopPending, capturePhase, page, motionPending,
          listening, lastSample, seenTiers, pulses, fn>>

levelVars == <<motionPending, listening, lastSample, seenTiers, pulses>>
deviceVars == <<cameraRunning, startPending, stopPending, capturePhase>>

PageInit == [capturedImage |-> Null, markers |-> Null, imageMetadata |-> Null]

InitCommon ==
  /\ cam = CamInit
  /\ sel = SelInit
  /\ touch = "none"
  /\ leakedTimers = {}
  /\ cameraRunning = FALSE
  /\ startPending = 0
  /\ stopPending = 0
  /\ capturePhase = "idle"
  /\ page = PageInit
  /\ motionPending = {}
  /\ listening = {}
  /\ lastSample = << >>
  /\ seenTiers = << >>
  /\ pulses = << >>

Init ==
  /\ InitCommon
  /\ screen \in {"capture", "selection"}
  /\ fn = << >>

-----------------------------------------------------------------------------
(* CameraCapture: events.  A touch is delivered to the element it began on *)
(* and bubbles to the capture surface while that element is in the         *)
(* document; a click is delivered when no touch is active.  `rect` is the  *)
(* size getBoundingClientRect() reports for the surface at the event: the  *)
(* surface may have been laid out anew between any two events.             *)

\* the touch target after the state `c` is rendered
TouchAfter(t, c) ==
  IF t = "surface" /\ ~SurfaceShown(c) THEN "detached"
  ELSE IF t \in Markers /\ ~MarkerShown(c, t) THEN "detached"
  ELSE t

OnCapture == screen = "capture"
Unmounted == UNCHANGED <<screen, sel, page, fn>>
Rest == Unmounted /\ UNCHANGED levelVars

\* click on the continue button; the lifecycle effect re-runs: its cleanup
\* calls stopCamera(), its body startCamera()
ContinueEvent ==
  /\ OnCapture /\ cam.showInstructions /\ touch = "none"
  /\ startPending < MaxPending /\ stopPending < MaxPending
  /\ cam' = ContinueClick(cam, cam)
  /\ startPending' = startPending + 1
  /\ stopPending' = stopPending + 1
  /\ UNCHANGED <<touch, leakedTimers, cameraRunning, capturePhase>>
  /\ Unmounted

\* CameraPreview.start settles
StartSettles(ok) ==
  /\ OnCapture /\ startPending > 0
  /\ cam' = HapticEffect(cam, StartCameraSettled(cam, ok), FALSE)
  /\ cameraRunning' = (cameraRunning \/ ok)
  /\ startPending' = startPending - 1
  /\ touch' = TouchAfter(touch, cam')
  /\ UNCHANGED <<leakedTimers, stopPending, capturePhase>>
  /\ Unmounted

\* CameraPreview.stop settles
StopSettles(ok) ==
  /\ OnCapture /\ stopPending > 0
  /\ cam' = HapticEffect(cam, StopCameraSettled(cam, ok), FALSE)
  /\ cameraRunning' = (cameraRunning /\ ~ok)
  /\ stopPending' = stopPending - 1
  /\ touch' = TouchAfter(touch, cam')
  /\ UNCHANGED <<leakedTimers, startPending, capturePhase>>
  /\ Unmounted

\* click on the cancel button; the click bubbles to the surface; the
\* lifecycle effect's cleanup calls stopCamera()
CancelEvent ==
  /\ OnCapture /\ SurfaceShown(cam) /\ touch = "none"
  /\ stopPending < MaxPending
  /\ \E pos \in TapPoints, rect \in Surfaces :
       cam' = handleScreenClick(cam, CancelClick(cam, cam), pos, rect)
  /\ stopPending' = stopPending + 1
  /\ UNCHANGED <<touch, leakedTimers, cameraRunning, startPending,
                 capturePhase>>
  /\ Unmounted

(* Spec follows the marker and capture state with the device held still:   *)
(* no orientation event is delivered, and the level variables rest.        *)
ClickContinue == ContinueEvent /\ UNCHANGED levelVars
StartResolve == (\E ok \in BOOLEAN : StartSettles(ok)) /\ UNCHANGED levelVars
StopResolve == (\E ok \in BOOLEAN : StopSettles(ok)) /\ UNCHANGED levelVars
ClickCancel == CancelEvent /\ UNCHANGED levelVars

\* click on the bare capture surface (or on a marker: it bubbles)
ScreenClick ==
  /\ OnCapture /\ SurfaceShown(cam) /\ touch = "none"
  /\ \E pos \in TapPoints, rect \in Surfaces :
       cam' = handleScreenClick(cam, cam, pos, rect)
  /\ UNCHANGED <<touch, leakedTimers, deviceVars>>
  /\ Rest

\* click on the reset button; the click bubbles to the surface
ClickReset ==
  /\ OnCapture /\ ResetButtonShown(cam) /\ touch = "none"
  /\ \E pos \in TapPoints, rect \in Surfaces :
       cam' = handleScreenClick(cam, handleResetMarkers(cam, cam), pos, rect)
  /\ UNCHANGED <<touch, leakedTimers, deviceVars>>
  /\ Rest

\* click on the capture button (disabled while isLoading); bubbles too
ClickCapture ==
  /\ OnCapture /\ CaptureButtonShown(cam) /\ ~cam.isLoading /\ touch = "none"
  /\ \E pos \in TapPoints, rect \in Surfaces :
       cam' = handleScreenClick(cam, captureImage(cam, cam), pos, rect)
  /\ capturePhase' = IF CaptureImageReturns(cam) THEN capturePhase ELSE "capturing"
  /\ UNCHANGED <<touch, leakedTimers, cameraRunning, startPending,
                 stopPending>>
  /\ Rest

\* CameraPreview.capture resolves: img.src is set, then stopCamera() is called
CaptureResolve ==
  /\ OnCapture /\ capturePhase = "capturing" /\ cameraRunning
  /\ stopPending < MaxPending
  /\ capturePhase' = "decoding"
  /\ stopPending' = stopPending + 1
  /\ UNCHANGED <<cam, touch, leakedTimers, cameraRunning, startPending>>
  /\ Rest

\* CaptureReject also dropping the markers
CaptureReject_DropsMarkers ==
  /\ OnCapture /\ capturePhase = "capturing"
  /\ capturePhase' = "idle"
  /\ cam' = [cam EXCEPT !.isLoading = FALSE,
                        !.ballViewportPos = Null, !.holeViewportPos = Null]
  /\ UNCHANGED <<touch, leakedTimers, cameraRunning, startPending,
                 stopPending>>
  /\ Rest

\* CameraPreview.capture rejects: the catch block of captureImage
CaptureReject ==
  /\ OnCapture /\ capturePhase = "capturing"
  /\ capturePhase' = "idle"
  /\ cam' = [cam EXCEPT !.isLoading = FALSE]
  /\ UNCHANGED <<touch, leakedTimers, cameraRunning, startPending,
                 stopPending>>
  /\ Rest

\* the captured image decodes: img.onload
ImgOnLoad ==
  /\ OnCapture /\ capturePhase = "decoding"
  /\ \E imageDim \in ImageSizes : cam' = CaptureOnLoad(cam, imageDim)
  /\ capturePhase' = "idle"
  /\ touch' = TouchAfter(touch, cam')
  /\ UNCHANGED <<leakedTimers, cameraRunning, startPending, stopPending>>
  /\ Rest

\* the captured image fails to decode: no onerror handler is installed
ImgOnError ==
  /\ OnCapture /\ capturePhase = "decoding"
  /\ capturePhase' = "lost"
  /\ UNCHANGED <<cam, touch, leakedTimers, cameraRunning, startPending,
                 stopPending>>
  /\ Rest

\* the review image loads
ReviewImgLoad ==
  /\ OnCapture /\ ReviewShown(cam)
  /\ cam' = ReviewOnLoad(cam, cam, ReviewRect(Val(cam.imageMetadata)))
  /\ UNCHANGED <<touch, leakedTimers, deviceVars>>
  /\ Rest

\* click on the retake button: the handler ends with startCamera()
ClickRetake ==
  /\ OnCapture /\ ReviewShown(cam) /\ touch = "none"
  /\ startPending < MaxPending
  /\ cam' = RetakeClick(cam, cam)
  /\ startPending' = startPending + 1
  /\ UNCHANGED <<touch, leakedTimers, cameraRunning, stopPending,
                 capturePhase>>
  /\ Rest

\* Index.handleCapture (Index.tsx lines 15-24)
handleCapture(args) ==
  [capturedImage |-> Some(args.imageData),
   markers |-> Some([ball |-> args.ball, hole |-> args.hole]),
   imageMetadata |-> Some(args.imageMetadata)]

\* click on the confirm button: confirmCapture, onCapture = Index.handleCapture;
\* Index then renders AnalysisResults in place of CameraCapture
ClickConfirm ==
  /\ OnCapture /\ ReviewShown(cam) /\ touch = "none"
  /\ ~ConfirmCaptureReturns(cam)
  /\ page' = handleCapture(confirmCapture(cam))
  /\ screen' = "results"
  /\ UNCHANGED <<cam, sel, touch, leakedTimers, deviceVars, levelVars, fn>>

\* touchstart on the surface outside the markers (buttons included)
TouchStartSurface ==
  /\ OnCapture /\ SurfaceShown(cam) /\ touch = "none"
  /\ \E pos \in TapPoints, rect \in Surfaces :
       cam' = handleTouchStart(cam, cam, pos, rect)
  /\ touch' = "surface"
  /\ UNCHANGED <<leakedTimers, deviceVars>>
  /\ Rest

\* touchstart on a marker: stopPropagation keeps it from the surface
TouchStartMarker ==
  /\ OnCapture /\ touch = "none"
  /\ \E marker \in Markers :
       /\ MarkerShown(cam, marker)
       /\ cam' = handleMarkerTouchStart(cam, marker)
       /\ touch' = marker
  /\ leakedTimers' = leakedTimers \cup
       (IF cam.longPressTimer = "null" THEN {} ELSE {cam.longPressTimer})
  /\ UNCHANGED deviceVars
  /\ Rest

\* touchmove: the surface runs both of its move handlers (lines 733-736)
TouchMove ==
  /\ OnCapture /\ touch \in {"surface", "ball", "hole"}
  /\ \E pos \in TapPoints :
       cam' = handleMarkerTouchMove(cam,
                handleTouchMoveForMagnifier(cam, cam, pos), pos)
  /\ UNCHANGED <<touch, leakedTimers, deviceVars>>
  /\ Rest

\* touchend: on a marker handleMarkerTouchEnd runs first, then the surface's
\* handleTouchEnd; a detached target delivers nothing
TouchEnd ==
  /\ OnCapture /\ touch # "none"
  /\ cam' = IF touch = "surface" THEN handleTouchEnd(cam, cam)
            ELSE IF touch \in Markers
                 THEN handleTouchEnd(cam, handleMarkerTouchEnd(cam, cam))
            ELSE cam
  /\ touch' = "none"
  /\ UNCHANGED <<leakedTimers, deviceVars>>
  /\ Rest

\* touchcancel: neither screen binds a handler for it
TouchCancel ==
  /\ screen \in {"capture", "selection"} /\ touch # "none"
  /\ touch' = "none"
  /\ UNCHANGED <<cam, leakedTimers, deviceVars>>
  /\ Rest

\* a long-press timer fires: the one the ref names (the ref then names a
\* timer that has fired, which clearTimeout treats like none) or a leaked one
LongPressFire ==
  /\ OnCapture
  /\ \/ /\ cam.longPressTimer # "null"
        /\ cam' = LongPressCallback([cam EXCEPT !.longPressTimer = "null"],
                                    cam.longPressTimer)
        /\ UNCHANGED leakedTimers
     \/ \E marker \in leakedTimers :
          /\ cam' = LongPressCallback(cam, marker)
          /\ leakedTimers' = leakedTimers \ {marker}
  /\ UNCHANGED <<touch, deviceVars>>
  /\ Rest

CaptureNext ==
  \/ ClickContinue \/ StartResolve \/ StopResolve
  \/ ScreenClick \/ ClickReset \/ ClickCapture \/ ClickCancel
  \/ CaptureResolve \/ CaptureReject \/ ImgOnLoad \/ ImgOnError
  \/ ReviewImgLoad \/ ClickRetake \/ ClickConfirm
  \/ TouchStartSurface \/ TouchStartMarker \/ TouchMove \/ TouchEnd
  \/ TouchCancel \/ LongPressFire

-----------------------------------------------------------------------------
(* MarkerSelection: events.  The touch handlers are bound on the container *)
(* of the image and the markers; the buttons lie outside it.               *)

MS_TouchAfter(t, c) ==
  IF t \in Markers /\ ~MS_MarkerShown(c, t) THEN "detached" ELSE t

OnSelection == screen = "selection"
MS_Unmounted == UNCHANGED <<screen, cam, page, deviceVars, levelVars, fn>>

\* click on the image
MS_ImageClick ==
  /\ OnSelection /\ touch = "none"
  /\ \E pos \in TapPoints : sel' = MS_handleImageClick(sel, sel, pos)
  /\ UNCHANGED <<touch, leakedTimers>>
  /\ MS_Unmounted

\* click on the reset button
MS_ClickReset ==
  /\ OnSelection /\ MS_ResetButtonShown(sel) /\ touch = "none"
  /\ sel' = MS_handleResetMarkers(sel, sel)
  /\ UNCHANGED <<touch, leakedTimers>>
  /\ MS_Unmounted

\* touchstart on the image
MS_TouchStartSurface ==
  /\ OnSelection /\ touch = "none"
  /\ \E pos \in TapPoints : sel' = MS_handleTouchStart(sel, sel, pos)
  /\ touch' = "surface"
  /\ UNCHANGED leakedTimers
  /\ MS_Unmounted

\* touchstart on a marker: stopPropagation keeps it from the container
MS_TouchStartMarker ==
  /\ OnSelection /\ touch = "none"
  /\ \E marker \in Markers :
       /\ MS_MarkerShown(sel, marker)
       /\ sel' = MS_handleMarkerTouchStart(sel, marker)
       /\ touch' = marker
  /\ leakedTimers' = leakedTimers \cup
       (IF sel.longPressTimerRef = "null" THEN {} ELSE {sel.longPressTimerRef})
  /\ MS_Unmounted

\* touchmove, from the image or bubbling from a marker
MS_TouchMove ==
  /\ OnSelection /\ touch \in {"surface", "ball", "hole"}
  /\ \E pos \in TapPoints : sel' = MS_handleTouchMove(sel, sel, pos)
  /\ touch' = MS_TouchAfter(touch, sel')
  /\ UNCHANGED leakedTimers
  /\ MS_Unmounted

\* touchend, from the image or bubbling from a marker; a detached target
\* delivers nothing
MS_TouchEnd ==
  /\ OnSelection /\ touch # "none"
  /\ sel' = IF touch = "detached" THEN sel ELSE MS_handleTouchEnd(sel, sel)
  /\ touch' = "none"
  /\ UNCHANGED leakedTimers
  /\ MS_Unmounted

\* a long-press timer fires: the one the ref names (the ref then names a
\* timer that has fired, which clearTimeout treats like none) or a leaked one
MS_LongPressFire ==
  /\ OnSelection
  /\ \/ /\ sel.longPressTimerRef # "null"
        /\ sel' = MS_LongPressCallback(
                    [sel EXCEPT !.longPressTimerRef = "null"],
                    sel.longPressTimerRef)
        /\ UNCHANGED leakedTimers
     \/ \E marker \in leakedTimers :
          /\ sel' = MS_LongPressCallback(sel, marker)
          /\ leakedTimers' = leakedTimers \ {marker}
  /\ UNCHANGED touch
  /\ MS_Unmounted

SelectionNext ==
  \/ MS_ImageClick \/ MS_ClickReset \/ MS_TouchStartSurface
  \/ MS_TouchStartMarker \/ MS_TouchMove \/ MS_TouchEnd \/ MS_LongPressFire

Next == CaptureNext \/ SelectionNext

Spec == Init /\ [][Next]_vars

-----------------------------------------------------------------------------
(* Level indicator: events.  SpecLevel follows the device orientation and  *)
(* the haptic effect with the pointer used for the buttons only.           *)

\* the readings a deviceorientation event can carry, in degrees
Betas == {0} \cup {NeutralPitch + 10 * i : i \in (0 - MaxTilt)..MaxTilt}
Gammas == {10 * i : i \in (0 - MaxTilt)..MaxTilt}

\* the haptic effect as HapticEffect runs it, on the record: the status it
\* sees while the camera is active, and the impact it emits
LogEffect(pre, acc, sampled) ==
  LET status == getLevelStatus(acc.deviceOrientation)
  IN  /\ seenTiers' = IF HapticEffectRuns(pre, acc, sampled) /\ acc.isCameraActive
                      THEN Append(seenTiers, status) ELSE seenTiers
      /\ pulses' = IF HapticPulse(pre, acc, sampled)
                   THEN Append(pulses, ImpactStyle(status)) ELSE pulses
LogRoom == Len(seenTiers) < MaxSeen

\* startMotionTracking (lines 329-347): the listener is added once
\* requestPermission resolves "granted" (where the platform has no
\* requestPermission, that is the very next step)
L_ClickContinue ==
  /\ ContinueEvent
  /\ motionPending' = motionPending \cup {"current"}
  /\ UNCHANGED <<listening, lastSample, seenTiers, pulses>>

\* requestPermission settles
L_PermissionResolve ==
  /\ OnCapture
  /\ \E run \in motionPending, granted \in BOOLEAN :
       /\ motionPending' = motionPending \ {run}
       /\ listening' = IF granted THEN listening \cup {run} ELSE listening
  /\ UNCHANGED <<cam, touch, leakedTimers, deviceVars, lastSample, seenTiers,
                 pulses>>
  /\ Unmounted

L_StartResolve ==
  /\ LogRoom
  /\ \E ok \in BOOLEAN :
       StartSettles(ok) /\ LogEffect(cam, StartCameraSettled(cam, ok), FALSE)
  /\ UNCHANGED <<motionPending, listening, lastSample>>

L_StopResolve ==
  /\ LogRoom
  /\ \E ok \in BOOLEAN :
       StopSettles(ok) /\ LogEffect(cam, StopCameraSettled(cam, ok), FALSE)
  /\ UNCHANGED <<motionPending, listening, lastSample>>

\* the cleanup of the lifecycle effect calls stopMotionTracking (line 358):
\* it removes the listener this run added; a request still pending adds its
\* listener later, out of reach of any cleanup
L_ClickCancel ==
  /\ CancelEvent
  /\ listening' = listening \ {"current"}
  /\ motionPending' = IF "current" \in motionPending
                      THEN (motionPending \ {"current"}) \cup {"stale"}
                      ELSE motionPending
  /\ UNCHANGED <<lastSample, seenTiers, pulses>>

\* a deviceorientation event: handleOrientation, then the haptic effect
L_Orientation ==
  /\ OnCapture /\ listening # {} /\ LogRoom
  /\ \E beta \in Betas, gamma \in Gammas :
       LET acc == [cam EXCEPT !.deviceOrientation = handleOrientation(beta, gamma)]
       IN  /\ cam' = HapticEffect(cam, acc, TRUE)
           /\ LogEffect(cam, acc, TRUE)
           /\ lastSample' = <<[beta |-> beta, gamma |-> gamma]>>
  /\ UNCHANGED <<touch, leakedTimers, deviceVars, motionPending, listening>>
  /\ Unmounted

InitLevel ==
  /\ InitCommon
  /\ screen = "capture"
  /\ fn = << >>

NextLevel ==
  \/ L_ClickContinue \/ L_PermissionResolve \/ L_StartResolve
  \/ L_StopResolve \/ L_ClickCancel \/ L_Orientation

SpecLevel == InitLevel /\ [][NextLevel]_vars

-----------------------------------------------------------------------------
(* The conversions and the break path as functions: SpecFn draws their     *)
(* inputs and applies them.                                                *)

Coords == 0..MaxCoord
\* the inputs as drawn: points <<x, y>> and the sizes <<width, height>> of a
\* space, a width or height of 0 included
Points == Coords \X Coords
Spaces == Coords \X Coords
NonDegenerate(space) == space[1] # 0 /\ space[2] # 0
PtOf(p) == Pt(p[1], p[2])
DimOf(space) == Dim(space[1], space[2])

InitFn ==
  /\ InitCommon
  /\ screen = "functions"
  /\ \/ \E p \in Points, A \in Spaces, B \in Spaces :
          fn = [op |-> "convert", stage |-> "view", p |-> p, A |-> A, B |-> B]
     \/ \E ball \in Points, hole \in Points, image \in Spaces :
          /\ NonDegenerate(image)
          /\ fn = [op |-> "path", stage |-> "markers", ball |-> ball,
                   hole |-> hole, image |-> image]

FnRest ==
  UNCHANGED <<screen, cam, sel, touch, leakedTimers, deviceVars, page,
              levelVars>>

\* confirmCapture's conversion of p from space A into space B
ConvertToImage ==
  /\ screen = "functions" /\ fn.op = "convert" /\ fn.stage = "view"
  /\ fn' = [op |-> "convert", stage |-> "image", p |-> fn.p, A |-> fn.A,
            B |-> fn.B,
            q |-> ViewToImage(PtOf(fn.p), DimOf(fn.A), DimOf(fn.B))]
  /\ FnRest

\* createPuttingPath's conversion of the result back into space A
ConvertToDisplay ==
  /\ screen = "functions" /\ fn.op = "convert" /\ fn.stage = "image"
  /\ fn' = [op |-> "convert", stage |-> "display", p |-> fn.p, A |-> fn.A,
            B |-> fn.B, q |-> fn.q,
            r |-> ImageToDisplay(fn.q, DimOf(fn.B), DimOf(fn.A))]
  /\ FnRest

\* createPuttingPath on markers handed to AnalysisResults, the image shown
\* at its own size: the ends, the length, the control point
DrawPathEnds ==
  /\ screen = "functions" /\ fn.op = "path" /\ fn.stage = "markers"
  /\ fn' = [op |-> "path", stage |-> "ends", ball |-> fn.ball,
            hole |-> fn.hole, image |-> fn.image,
            ends |-> PathEnds([ball |-> PtOf(fn.ball), hole |-> PtOf(fn.hole)],
                              DimOf(fn.image), DimOf(fn.image))]
  /\ FnRest

DrawPathLength ==
  /\ screen = "functions" /\ fn.op = "path" /\ fn.stage = "ends"
  /\ fn' = [op |-> "path", stage |-> "length", ball |-> fn.ball,
            hole |-> fn.hole, image |-> fn.image, ends |-> fn.ends,
            length |-> PathLength(fn.ends.ball, fn.ends.hole)]
  /\ FnRest

DrawPath ==
  /\ screen = "functions" /\ fn.op = "path" /\ fn.stage = "length"
  /\ fn' = [op |-> "path", stage |-> "drawn", ball |-> fn.ball,
            hole |-> fn.hole, image |-> fn.image,
            path |-> [start |-> fn.ends.ball,
                      control |-> PathControl(fn.ends.ball, fn.ends.hole,
                                              fn.length),
                      end |-> fn.ends.hole]]
  /\ FnRest

NextFn ==
  \/ ConvertToImage \/ ConvertToDisplay
  \/ DrawPathEnds \/ DrawPathLength \/ DrawPath

SpecFn == InitFn /\ [][NextFn]_vars

-----------------------------------------------------------------------------
(* SpecView: marker placement by click on the capture screen, followed     *)
(* together with the size the capture surface had at each placement.  In   *)
(* this specification `fn` records, for each marker now stored, the size   *)
(* getBoundingClientRect() reported in the event that placed it.           *)

\* the surface size behind each stored marker after an event took the
\* component from `c` to `c2`, `rectDim` being the size read in that event
PlacedAt(hist, c, c2, rectDim) ==
  [ball |-> IF c2.ballViewportPos = Null THEN Null
            ELSE IF c2.ballViewportPos # c.ballViewportPos THEN Some(rectDim)
            ELSE hist.ball,
   hole |-> IF c2.holeViewportPos = Null THEN Null
            ELSE IF c2.holeViewportPos # c.holeViewportPos THEN Some(rectDim)
            ELSE hist.hole]

ViewRest == UNCHANGED <<screen, sel, page, levelVars>>

V_ScreenClick ==
  /\ OnCapture /\ SurfaceShown(cam) /\ touch = "none"
  /\ \E pos \in TapPoints, rect \in Surfaces :
       /\ cam' = handleScreenClick(cam, cam, pos, rect)
       /\ fn' = PlacedAt(fn, cam, cam', rect)
  /\ UNCHANGED <<touch, leakedTimers, deviceVars>>
  /\ ViewRest

V_ClickReset ==
  /\ OnCapture /\ ResetButtonShown(cam) /\ touch = "none"
  /\ \E pos \in TapPoints, rect \in Surfaces :
       /\ cam' = handleScreenClick(cam, handleResetMarkers(cam, cam), pos, rect)
       /\ fn' = PlacedAt(fn, cam, cam', rect)
  /\ UNCHANGED <<touch, leakedTimers, deviceVars>>
  /\ ViewRest

V_ClickCancel ==
  /\ OnCapture /\ SurfaceShown(cam) /\ touch = "none"
  /\ stopPending < MaxPending
  /\ \E pos \in TapPoints, rect \in Surfaces :
       /\ cam' = handleScreenClick(cam, CancelClick(cam, cam), pos, rect)
       /\ fn' = PlacedAt(fn, cam, cam', rect)
  /\ stopPending' = stopPending + 1
  /\ UNCHANGED <<touch, leakedTimers, cameraRunning, startPending,
                 capturePhase>>
  /\ ViewRest

V_ClickRetake ==
  /\ OnCapture /\ ReviewShown(cam) /\ touch = "none"
  /\ startPending < MaxPending
  /\ cam' = RetakeClick(cam, cam)
  /\ fn' = PlacedAt(fn, cam, cam', SurfaceAt(1))
  /\ startPending' = startPending + 1
  /\ UNCHANGED <<touch, leakedTimers, cameraRunning, stopPending,
                 capturePhase>>
  /\ ViewRest

InitView ==
  /\ InitCommon
  /\ screen = "capture"
  /\ fn = [ball |-> Null, hole |-> Null]

\* the other events of the capture screen leave the markers as they are
NextView ==
  \/ ClickContinue \/ StartResolve \/ StopResolve
  \/ V_ScreenClick \/ V_ClickReset \/ V_ClickCancel
  \/ ClickCapture \/ CaptureResolve \/ CaptureReject
  \/ ImgOnLoad \/ ImgOnError \/ ReviewImgLoad
  \/ V_ClickRetake \/ ClickConfirm

SpecView == InitView /\ [][NextView]_vars

-----------------------------------------------------------------------------
(* SpecServe: the analyze-green edge function (serve handler).  A text is  *)
(* a sequence of characters over a four-letter alphabet on which           *)
(* JSON.parse and the regular expression of the handler are computed: "1"  *)
(* is a digit, "x" a letter, and the JSON texts are the numbers 1, 11, ... *)
(* and the empty object {}.  In this specification `fn` holds the request  *)
(* being handled, the gateway's answer and the response sent.              *)

Chars == {"{", "}", "1", "x"}
Texts == UNION {[1..n -> Chars] : n \in 0..MaxText}

\* JSON.parse(text): << value >>, or << >> when it throws a SyntaxError
JSONParse(text) ==
  IF text # << >> /\ \A i \in 1..Len(text) : text[i] = "1"
  THEN <<[json |-> "number", text |-> text]>>
  ELSE IF text = <<"{", "}">> THEN <<[json |-> "object", text |-> text]>>
  ELSE << >>

\* text.match(/\{[\s\S]*\}/): << the match >>, from the first "{" to the last
\* "}" after it, or << >> for null
MatchBraces(text) ==
  LET opens == {i \in 1..Len(text) : text[i] = "{"}
      first == CHOOSE i \in opens : \A j \in opens : i <= j
      closes == {i \in 1..Len(text) : text[i] = "}" /\ i > first}
      last == CHOOSE i \in closes : \A j \in closes : j <= i
  IN  IF opens = {} THEN << >>
      ELSE IF closes = {} THEN << >>
      ELSE <<SubSeq(text, first, last)>>

\* the fallback structure of lines 321-333
FallbackAnalysis ==
  [puttingLine |-> [direction |-> "Aim slightly left of center",
                    break |-> "Moderate right-to-left break expected",
                    confidence |-> "Medium confidence (65%)"],
   recommendations |-> <<"Account for green slope in your read",
                         "Use medium pace for this distance",
                         "Watch the grain direction",
                         "Trust your line and commit to the stroke">>]

\* lines 309-334: the analysis taken from the text of the answer
ParseAnalysis(analysisText) ==
  LET jsonMatch == MatchBraces(analysisText)
      parsed == IF jsonMatch # << >> THEN JSONParse(jsonMatch[1])
                ELSE JSONParse(analysisText)
  IN  IF parsed = << >> THEN FallbackAnalysis ELSE parsed[1]

ErrorResponse(status, message) == [status |-> status, body |-> [error |-> message]]

\* lines 272-341: the response to a gateway answer.  `answer.body` is "json"
\* when response.json() succeeds, `answer.content` is << text >>, or << >>
\* when choices[0].message.content is absent
RespondTo(answer) ==
  IF ~answer.ok
  THEN IF answer.status = 429
       THEN ErrorResponse(429, "Rate limit exceeded. Please try again in a moment.")
       ELSE IF answer.status = 402
       THEN ErrorResponse(402, "AI credits depleted. Please add more credits to your workspace.")
       ELSE ErrorResponse(500, "AI gateway error")
  ELSE IF answer.body # "json" THEN ErrorResponse(500, "SyntaxError")
  ELSE IF answer.content = << >> \/ answer.content[1] = << >>
  THEN ErrorResponse(500, "No analysis received from AI")
  ELSE [status |-> 200, body |-> ParseAnalysis(answer.content[1])]

\* the answers of the gateway: an error status, or 200 with a body
GatewayAnswers ==
  {[ok |-> FALSE, status |-> st, body |-> "text", content |-> << >>] :
     st \in {402, 429, 500}}
  \cup {[ok |-> TRUE, status |-> 200, body |-> "html", content |-> << >>]}
  \cup {[ok |-> TRUE, status |-> 200, body |-> "json", content |-> c] :
          c \in {<< >>} \cup {<<t>> : t \in Texts}}

NoAnswer == [ok |-> FALSE, status |-> 0, body |-> "none", content |-> << >>]
NoResponse == [status |-> 0, body |-> "none"]

ServeRest ==
  UNCHANGED <<screen, cam, sel, touch, leakedTimers, deviceVars, page,
              levelVars>>

\* a request arrives (lines 178-199)
S_Request ==
  /\ screen = "edge" /\ fn.stage = "listening"
  /\ \E method \in {"OPTIONS", "POST"}, imageData \in BOOLEAN, key \in BOOLEAN :
       fn' = [fn EXCEPT !.stage = "received",
                        !.req = [method |-> method, imageData |-> imageData,
                                 key |-> key]]
  /\ ServeRest

\* lines 179-199: the replies given without calling the gateway
S_ReplyEarly ==
  /\ screen = "edge" /\ fn.stage = "received"
  /\ fn.req.method = "OPTIONS" \/ ~fn.req.imageData \/ ~fn.req.key
  /\ fn' = [fn EXCEPT
              !.stage = "answered",
              !.response =
                 IF fn.req.method = "OPTIONS" THEN [status |-> 200, body |-> "null"]
                 ELSE IF ~fn.req.imageData
                 THEN ErrorResponse(400, "Image data is required")
                 ELSE ErrorResponse(500, "LOVABLE_API_KEY is not configured")]
  /\ ServeRest

\* line 203: the request to the gateway is sent
S_Fetch ==
  /\ screen = "edge" /\ fn.stage = "received"
  /\ fn.req.method = "POST" /\ fn.req.imageData /\ fn.req.key
  /\ fn' = [fn EXCEPT !.stage = "fetching"]
  /\ ServeRest

\* fetch rejects (network error): the catch of line 343
S_FetchFails ==
  /\ screen = "edge" /\ fn.stage = "fetching"
  /\ fn' = [fn EXCEPT !.stage = "answered",
                      !.response = ErrorResponse(500, "fetch failed")]
  /\ ServeRest

\* the gateway answers
S_GatewayAnswers ==
  /\ screen = "edge" /\ fn.stage = "fetching"
  /\ \E answer \in GatewayAnswers :
       fn' = [fn EXCEPT !.stage = "answered", !.answer = answer,
                        !.response = RespondTo(answer)]
  /\ ServeRest

InitServe ==
  /\ InitCommon
  /\ screen = "edge"
  /\ fn = [stage |-> "listening",
           req |-> [method |-> "none", imageData |-> FALSE, key |-> FALSE],
           answer |-> NoAnswer, response |-> NoResponse]

NextServe ==
  \/ S_Request \/ S_ReplyEarly \/ S_Fetch \/ S_FetchFails \/ S_GatewayAnswers

SpecServe == InitServe /\ [][NextServe]_vars

-----------------------------------------------------------------------------
(* SpecResults: the page (Index) with CameraCapture driven by clicks and   *)
(* AnalysisResults.  In this specification `fn` holds the state of         *)
(* AnalysisResults together with the analyze-green requests: those in      *)
(* flight, those sent since the component mounted, and the clicks on the   *)
(* retry button since then.                                                *)

\* the data and the error messages supabase.functions.invoke resolves to
AnalysisData == {"analysis"}
ErrorMessages == {"functionError", "dataError"}

\* AnalysisResults is not rendered
ResultsUnmounted ==
  [mounted |-> FALSE, isAnalyzing |-> FALSE, analysis |-> Null,
   error |-> Null, displayDimensions |-> Dim(0, 0), drawerOpen |-> FALSE,
   inFlight |-> 0, sent |-> 0, retries |-> 0]

\* the initial state of AnalysisResults (lines 380-385)
ResultsInit ==
  [mounted |-> TRUE, isAnalyzing |-> TRUE, analysis |-> Null,
   error |-> Null, displayDimensions |-> Dim(0, 0), drawerOpen |-> FALSE,
   inFlight |-> 0, sent |-> 0, retries |-> 0]

\* analyzeGreen up to its await (lines 428-436): one request is sent
analyzeGreen(st) ==
  [st EXCEPT !.isAnalyzing = TRUE, !.error = Null,
             !.inFlight = st.inFlight + 1, !.sent = st.sent + 1]

\* analyzeGreen after its await, the request answered with data (lines
\* 446-448, 456)
analyzeGreenResolved(st, data) ==
  [st EXCEPT !.analysis = Some(data), !.isAnalyzing = FALSE,
             !.inFlight = st.inFlight - 1]

\* analyzeGreen after its await, functionError or data.error set (lines
\* 438-444, 450-456)
analyzeGreenFailed(st, errorMessage) ==
  [st EXCEPT !.error = Some(errorMessage), !.isAnalyzing = FALSE,
             !.inFlight = st.inFlight - 1]

\* the branches of the drawer (lines 581-638)
RetryShown(st) ==
  st.mounted /\ st.drawerOpen /\ ~st.isAnalyzing /\ st.error # Null
AnotherGreenShown(st) ==
  /\ st.mounted /\ st.drawerOpen /\ ~st.isAnalyzing
  /\ st.error = Null /\ st.analysis # Null

\* handleReset, except that the image dimensions stay
handleReset_KeepsMetadata ==
  [capturedImage |-> Null, markers |-> Null,
   imageMetadata |-> page.imageMetadata]

\* Index.handleReset (Index.tsx lines 26-30)
handleReset ==
  [capturedImage |-> Null, markers |-> Null, imageMetadata |-> Null]

\* Index renders AnalysisResults only when all three values are set (line 34)
ResultsRendered(pg) ==
  ~(pg.capturedImage = Null \/ pg.markers = Null \/ pg.imageMetadata = Null)

OnResults == screen = "results" /\ fn.mounted
ResultsRest ==
  UNCHANGED <<screen, cam, sel, touch, leakedTimers, deviceVars, page,
              levelVars>>

\* click on the confirm button: Index stores the hand-off and renders
\* AnalysisResults, whose mount effect calls analyzeGreen once
R_ClickConfirm ==
  /\ OnCapture /\ ReviewShown(cam) /\ touch = "none"
  /\ ~ConfirmCaptureReturns(cam)
  /\ page' = handleCapture(confirmCapture(cam))
  /\ screen' = IF ResultsRendered(page') THEN "results" ELSE "capture"
  /\ fn' = IF ResultsRendered(page') THEN analyzeGreen(ResultsInit) ELSE fn
  /\ UNCHANGED <<cam, sel, touch, leakedTimers, deviceVars, levelVars>>

\* onLoad of the analysed image: handleImageLoad (lines 391-398)
R_ImageLoad ==
  /\ OnResults
  /\ \E rect \in Surfaces : fn' = [fn EXCEPT !.displayDimensions = rect]
  /\ ResultsRest

\* the drawer is opened or closed (onOpenChange, line 567)
R_ToggleDrawer ==
  /\ OnResults
  /\ fn' = [fn EXCEPT !.drawerOpen = ~fn.drawerOpen]
  /\ ResultsRest

\* the request in flight is answered with data
R_InvokeResolves ==
  /\ OnResults /\ fn.inFlight > 0
  /\ \E data \in AnalysisData : fn' = analyzeGreenResolved(fn, data)
  /\ ResultsRest

\* R_InvokeFails, except that the failed request is sent again at once
R_InvokeFails_Resends ==
  /\ OnResults /\ fn.inFlight > 0
  /\ \E errorMessage \in ErrorMessages :
       fn' = IF fn.sent < MaxRequests
             THEN analyzeGreen(analyzeGreenFailed(fn, errorMessage))
             ELSE analyzeGreenFailed(fn, errorMessage)
  /\ ResultsRest

\* the request in flight fails, or its answer carries an error; nothing is
\* sent again
R_InvokeFails ==
  /\ OnResults /\ fn.inFlight > 0
  /\ \E errorMessage \in ErrorMessages :
       fn' = analyzeGreenFailed(fn, errorMessage)
  /\ ResultsRest

\* click on the retry button (line 589)
R_ClickRetry ==
  /\ OnResults /\ RetryShown(fn) /\ fn.sent < MaxRequests
  /\ fn' = [analyzeGreen(fn) EXCEPT !.retries = fn.retries + 1]
  /\ ResultsRest

\* click on "Analysera en annan green" (lines 630-637): onReset =
\* Index.handleReset; Index renders a new CameraCapture.  The camera the old
\* one left behind may be running or stopped.
R_ClickAnotherGreen ==
  /\ OnResults /\ AnotherGreenShown(fn)
  /\ page' = handleReset
  /\ screen' = IF ResultsRendered(page') THEN "results" ELSE "capture"
  /\ fn' = IF ResultsRendered(page') THEN fn ELSE ResultsUnmounted
  /\ cam' = CamInit
  /\ touch' = "none" /\ leakedTimers' = {}
  /\ cameraRunning' \in BOOLEAN
  /\ startPending' = 0 /\ stopPending' = 0 /\ capturePhase' = "idle"
  /\ UNCHANGED <<sel, levelVars>>

InitResults ==
  /\ InitCommon
  /\ screen = "capture"
  /\ fn = ResultsUnmounted

NextResults ==
  \/ ClickContinue \/ StartResolve \/ StopResolve
  \/ ScreenClick \/ ClickCapture \/ CaptureResolve
  \/ ImgOnLoad \/ ReviewImgLoad
  \/ R_ClickConfirm \/ R_ImageLoad \/ R_ToggleDrawer
  \/ R_InvokeResolves \/ R_InvokeFails \/ R_ClickRetry
  \/ R_ClickAnotherGreen

SpecResults == InitResults /\ [][NextResults]_vars

-----------------------------------------------------------------------------
(* SpecDrag: the markers of the capture surface under two fingers.  `touch` *)
(* is the first finger as before; in this specification `fn` holds the     *)
(* marker the second finger is down on, or "none".  Each finger's          *)
(* touchstart and touchend are delivered to the marker it went down on.    *)

\* a click on the surface, no finger being down
D_ScreenClick == fn.second = "none" /\ ScreenClick

\* touchstart of the second finger on the other marker, the first one being
\* down on a marker: handleMarkerTouchStart overwrites the timer ref
D_SecondPress ==
  /\ OnCapture /\ touch \in Markers /\ fn.second = "none"
  /\ \E marker \in Markers \ {touch} :
       /\ MarkerShown(cam, marker)
       /\ cam' = handleMarkerTouchStart(cam, marker)
       /\ fn' = [second |-> marker]
  /\ leakedTimers' = leakedTimers \cup
       (IF cam.longPressTimer = "null" THEN {} ELSE {cam.longPressTimer})
  /\ UNCHANGED <<screen, sel, page, touch, deviceVars, levelVars>>

\* touchend of the second finger: handleMarkerTouchEnd on its marker, then
\* the surface's handleTouchEnd
D_SecondRelease ==
  /\ OnCapture /\ fn.second # "none"
  /\ cam' = handleTouchEnd(cam, handleMarkerTouchEnd(cam, cam))
  /\ fn' = [second |-> "none"]
  /\ UNCHANGED <<screen, sel, page, touch, leakedTimers, deviceVars,
                 levelVars>>

InitDrag ==
  /\ InitCommon
  /\ screen = "capture"
  /\ fn = [second |-> "none"]

NextDrag ==
  \/ ClickContinue \/ StartResolve \/ StopResolve
  \/ D_ScreenClick
  \/ TouchStartMarker \/ TouchMove \/ TouchEnd \/ LongPressFire
  \/ D_SecondPress \/ D_SecondRelease

SpecDrag == InitDrag /\ [][NextDrag]_vars

-----------------------------------------------------------------------------
(* SpecTap: tap gestures on the capture surface.  A tap is a touchstart, a  *)
(* touchend and the click the browser dispatches after them at the same    *)
(* position (no handler calls preventDefault); React renders between the   *)
(* three events.  In this specification `fn` holds the gesture: its phase, *)
(* the position of the finger and the markers as they were when it began.  *)

NoGesture == [phase |-> "idle", pos |-> Null, ball |-> Null, hole |-> Null]
GestureAt(phase, pos, c) ==
  [phase |-> phase, pos |-> Some(pos), ball |-> c.ballViewportPos,
   hole |-> c.holeViewportPos]

TapRest == UNCHANGED <<screen, sel, page, deviceVars, levelVars>>

\* touchstart of a tap on the bare surface
T_TouchStart ==
  /\ OnCapture /\ SurfaceShown(cam) /\ touch = "none"
  /\ fn.phase \in {"idle", "done"}
  /\ \E pos \in TapPoints, rect \in Surfaces :
       /\ cam' = handleTouchStart(cam, cam, pos, rect)
       /\ fn' = GestureAt("down", pos, cam)
  /\ touch' = "surface"
  /\ UNCHANGED leakedTimers
  /\ TapRest

\* touchstart of a tap on a marker
T_TouchStartMarker ==
  /\ OnCapture /\ touch = "none" /\ fn.phase \in {"idle", "done"}
  /\ \E marker \in Markers :
       /\ MarkerShown(cam, marker)
       /\ cam' = handleMarkerTouchStart(cam, marker)
       /\ fn' = GestureAt("down", Val(MarkerPos(cam, marker)), cam)
       /\ touch' = marker
  /\ leakedTimers' = leakedTimers \cup
       (IF cam.longPressTimer = "null" THEN {} ELSE {cam.longPressTimer})
  /\ TapRest

\* touchend of the tap, before the long-press timer fires
T_TouchEnd ==
  /\ OnCapture /\ touch # "none" /\ fn.phase = "down"
  /\ cam' = IF touch = "surface" THEN handleTouchEnd(cam, cam)
            ELSE IF touch \in Markers
                 THEN handleTouchEnd(cam, handleMarkerTouchEnd(cam, cam))
            ELSE cam
  /\ fn' = [fn EXCEPT !.phase = "lifted"]
  /\ touch' = "none"
  /\ UNCHANGED leakedTimers
  /\ TapRest

\* the click that follows the tap, at the position of the finger
T_Click ==
  /\ OnCapture /\ SurfaceShown(cam) /\ touch = "none" /\ fn.phase = "lifted"
  /\ \E rect \in Surfaces :
       cam' = handleScreenClick(cam, cam, Val(fn.pos), rect)
  /\ fn' = [fn EXCEPT !.phase = "done"]
  /\ UNCHANGED <<touch, leakedTimers>>
  /\ TapRest

\* a click on the reset button from a mouse, no gesture being under way
T_ClickReset ==
  /\ fn.phase \in {"idle", "done"}
  /\ ClickReset

InitTap ==
  /\ InitCommon
  /\ screen = "capture"
  /\ fn = NoGesture

NextTap ==
  \/ ClickContinue \/ StartResolve \/ StopResolve
  \/ T_TouchStart \/ T_TouchStartMarker \/ T_TouchEnd \/ T_Click
  \/ T_ClickReset

SpecTap == InitTap /\ [][NextTap]_vars

-----------------------------------------------------------------------------
(* Properties                                                              *)

\* a placement event on the capture surface got past the guards of its
\* handler (handleScreenClick for a click, handleTouchEnd for a touch)
CommittedOnSurface ==
  /\ ~SurfaceHandlerReturns(cam)
  /\ touch = "none" \/ (touch # "detached" /\ cam.touchPosition # Null)
\* the same on the still image (handleImageClick, handleTouchEnd)
CommittedOnImage ==
  /\ ~sel.isDragging
  /\ touch = "none" \/ (touch # "detached" /\ sel.touchPosition # Null)

CamPlacementOrder ==
  /\ cam.ballViewportPos = Null =>
       /\ cam'.holeViewportPos = cam.holeViewportPos
       /\ CommittedOnSurface => cam'.ballViewportPos # Null
  /\ cam.ballViewportPos # Null /\ cam.holeViewportPos = Null =>
       /\ cam'.ballViewportPos = cam.ballViewportPos
       /\ CommittedOnSurface => cam'.holeViewportPos # Null
  /\ cam.ballViewportPos # Null /\ cam.holeViewportPos # Null =>
       /\ cam'.ballViewportPos = cam.ballViewportPos
       /\ cam'.holeViewportPos = cam.holeViewportPos

SelPlacementOrder ==
  /\ sel.ballPosition = Null =>
       /\ sel'.holePosition = sel.holePosition
       /\ CommittedOnImage => sel'.ballPosition # Null
  /\ sel.ballPosition # Null /\ sel.holePosition = Null =>
       /\ sel'.ballPosition = sel.ballPosition
       /\ CommittedOnImage => sel'.holePosition # Null
  /\ sel.ballPosition # Null /\ sel.holePosition # Null =>
       /\ sel'.ballPosition = sel.ballPosition
       /\ sel'.holePosition = sel.holePosition

\* C1  Placement order.  Every placement event (a click on the surface or
\* the image, or a touch lifted from it) fills the ball when the ball is
\* unset and leaves the hole alone; with the ball set and the hole unset it
\* fills the hole and leaves the ball alone; with both set it changes
\* neither marker.
C1_PlacementOrder ==
  [][/\ (ScreenClick \/ TouchEnd) => CamPlacementOrder
     /\ (MS_ImageClick \/ MS_TouchEnd) => SelPlacementOrder]_vars

\* two taps have placed the ball at the first point and the hole at the second
C1_Witness ==
  /\ screen = "capture" /\ touch = "none"
  /\ cam.isDragging = "null" /\ cam.longPressTimer = "null" /\ leakedTimers = {}
  /\ cam.ballViewportPos = Some(PointAt(1))
  /\ cam.holeViewportPos = Some(PointAt(2))

\* C2  On both marker screens the hole marker is set only if the ball
\* marker is set.
C2_HoleOnlyWithBall ==
  /\ cam.holeViewportPos # Null => cam.ballViewportPos # Null
  /\ sel.holePosition # Null => sel.ballPosition # Null

\* C3  Reset atomicity.  A click on the reset button leaves, in that one
\* step, the ball unset and the hole unset.
C3_ResetClearsBoth ==
  [][/\ ClickReset =>
          cam'.ballViewportPos = Null /\ cam'.holeViewportPos = Null
     /\ MS_ClickReset =>
          sel'.ballPosition = Null /\ sel'.holePosition = Null]_vars

CamMarkersKept ==
  /\ cam'.ballViewportPos = cam.ballViewportPos
  /\ cam'.holeViewportPos = cam.holeViewportPos
SelMarkersKept ==
  /\ sel'.ballPosition = sel.ballPosition
  /\ sel'.holePosition = sel.holePosition

\* C4  Drag exclusivity.  While isDragging names a marker, a click, a
\* touchstart or a touchend on the surface changes neither marker, and a
\* touchmove writes the dragged marker and leaves the other one as it is.
C4_DragExclusive ==
  [][/\ cam.isDragging # "null" =>
          /\ (ScreenClick \/ TouchStartSurface \/ TouchStartMarker \/ TouchEnd)
               => CamMarkersKept
          /\ TouchMove =>
               /\ cam.isDragging = "ball" =>
                    /\ cam'.holeViewportPos = cam.holeViewportPos
                    /\ cam'.ballViewportPos \in {Some(pos) : pos \in TapPoints}
               /\ cam.isDragging = "hole" =>
                    /\ cam'.ballViewportPos = cam.ballViewportPos
                    /\ cam'.holeViewportPos \in {Some(pos) : pos \in TapPoints}
     /\ sel.isDragging =>
          /\ (MS_ImageClick \/ MS_TouchStartSurface \/ MS_TouchStartMarker
                \/ MS_TouchEnd) => SelMarkersKept
          /\ MS_TouchMove =>
               /\ sel.draggedMarker = "ball" =>
                    /\ sel'.holePosition = sel.holePosition
                    /\ sel'.ballPosition \in {Some(pos) : pos \in TapPoints}
               /\ sel.draggedMarker = "hole" =>
                    /\ sel'.ballPosition = sel.ballPosition
                    /\ sel'.holePosition \in {Some(pos) : pos \in TapPoints}]_vars

\* the hole is being dragged (the finger is on it, isDragging names it) and
\* lies on the first point, where the ball is
C4_Witness ==
  /\ screen = "capture" /\ touch = "hole" /\ cam.isDragging = "hole"
  /\ cam.ballViewportPos = Some(PointAt(1))
  /\ cam.holeViewportPos = Some(PointAt(1))

\* the scenario of C5: surface 1000 x 800, ball (100,100), hole (900,700),
\* image 3000 x 2400
C5_Scenario ==
  /\ cam.viewportDimensions = Some(Dim(1000, 800))
  /\ cam.ballViewportPos = Some(Pt(100, 100))
  /\ cam.holeViewportPos = Some(Pt(900, 700))
  /\ cam.imageMetadata = Some(Dim(3000, 2400))

\* viewCoordinate * imageDimension / viewDimension
C5_Expected(viewCoordinate, imageDimension, viewDimension) ==
  NDiv(NMul(viewCoordinate, imageDimension), viewDimension)

\* C5  End-to-end conversion.  Once a capture is confirmed, each coordinate
\* handed to the page is the marker's view coordinate times the image
\* dimension over the recorded view dimension, axis by axis; in the scenario
\* above the ball is (300,300) and the hole (2700,2100).
C5_EndToEnd ==
  screen = "results" =>
    LET view == Val(cam.viewportDimensions)
        image == Val(cam.imageMetadata)
        ball == Val(cam.ballViewportPos)
        hole == Val(cam.holeViewportPos)
        out == Val(page.markers)
    IN  /\ out.ball.x = C5_Expected(ball.x, image.width, view.width)
        /\ out.ball.y = C5_Expected(ball.y, image.height, view.height)
        /\ out.hole.x = C5_Expected(hole.x, image.width, view.width)
        /\ out.hole.y = C5_Expected(hole.y, image.height, view.height)
        /\ C5_Scenario =>
             out = [ball |-> Pt(300, 300), hole |-> Pt(2700, 2100)]

\* the scenario has been confirmed and handed off
C5_Witness ==
  /\ screen = "results" /\ C5_Scenario
  /\ page.markers = Some([ball |-> Pt(300, 300), hole |-> Pt(2700, 2100)])

\* C6  Round trip.  For spaces A and B of non-zero width and height, p
\* converted from A to B as confirmCapture does and back from B to A as
\* createPuttingPath does is p again (in exact arithmetic: the rounding of
\* the two scale factors to doubles is not followed).
C6_RoundTrip ==
  (/\ screen = "functions" /\ fn.op = "convert" /\ fn.stage = "display"
   /\ NonDegenerate(fn.A) /\ NonDegenerate(fn.B))
    => fn.r = PtOf(fn.p)

\* a round trip through scale factors 2/3 and 3/2 has been made
C6_Witness ==
  /\ screen = "functions" /\ fn.op = "convert" /\ fn.stage = "display"
  /\ fn.p = <<1, 2>> /\ fn.A = <<3, 2>> /\ fn.B = <<2, 3>>
  /\ fn.q = [x |-> Rat(2, 3), y |-> Int2Num(3)]
  /\ fn.r = Pt(1, 2)

\* C7  Break-path degeneracy.  With ball and hole at one point the path is
\* well defined and of length zero: start, control and end are that point.
C7_ZeroLengthPath ==
  (/\ screen = "functions" /\ fn.op = "path" /\ fn.stage = "drawn"
   /\ fn.ball = fn.hole)
    => /\ IsFinite(fn.path.control.x) /\ IsFinite(fn.path.control.y)
       /\ fn.path.control = fn.path.start
       /\ fn.path.end = fn.path.start

\* the tier C8 gives an orientation sample
C8_Tier(pitch, roll) ==
  IF Abs(roll) < 10 /\ Abs(pitch - 90) < 10 THEN "good"
  ELSE IF Abs(roll) < 20 /\ Abs(pitch - 90) < 20 THEN "ok"
  ELSE "bad"

\* C8  Level tier.  After every orientation sample, a pitch or roll of 0
\* included, the tier shown is the tier of that sample's pitch and roll.
C8_TierOfSample ==
  lastSample # << >> =>
    getLevelStatus(cam.deviceOrientation)
      = C8_Tier(lastSample[1].beta, lastSample[1].gamma)

\* a sequence of tiers with runs of equal tiers reduced to one
RECURSIVE Collapse(_)
Collapse(tiers) ==
  IF Len(tiers) <= 1 THEN tiers
  ELSE LET front == Collapse(SubSeq(tiers, 1, Len(tiers) - 1))
       IN  IF tiers[Len(tiers)] = tiers[Len(tiers) - 1] THEN front
           ELSE Append(front, tiers[Len(tiers)])

\* C9  Level feedback.  The impacts emitted are, in order, one for the first
\* tier seen while the camera is active and one for each later tier that
\* differs from the tier emitted last: equal samples add no pulse, every
\* transition adds one.
C9_PulsePerTransition ==
  LET emitted == Collapse(seenTiers)
  IN  /\ pulses = [i \in 1..Len(emitted) |-> ImpactStyle(emitted[i])]
      /\ cam.lastHapticStatus =
           IF emitted = << >> THEN "" ELSE emitted[Len(emitted)]

\* two equal samples gave one pulse, the change to bad a second one
C9_Witness ==
  /\ seenTiers = <<"good", "good", "bad">>
  /\ pulses = <<"Light", "Heavy">>
  /\ lastSample # << >>

CaptureInFlight == screen = "capture" /\ capturePhase \in {"capturing", "decoding"}

\* C10  While a still capture is in flight no step changes the markers.
C10_NoMarkerChangeInFlight ==
  [][CaptureInFlight /\ CaptureInFlight' => CamMarkersKept]_vars

\* C11  A capture result that arrives after the user cancelled (the
\* instructions are shown again while the capture is still in flight) is
\* ignored: the captured image and its metadata stay unset.
C11_StaleCaptureIgnored ==
  [][(ImgOnLoad /\ cam.showInstructions) =>
        /\ cam'.capturedImageData = Null
        /\ cam'.imageMetadata = Null]_vars

\* C12  When CameraPreview.capture rejects, the markers and the recorded view
\* dimensions are unchanged, no image and no metadata is stored, the camera
\* flag is unchanged, the loading flag is cleared and no capture is in flight
\* any more, so that the capture button works again.
C12_CaptureFailureKeepsState ==
  [][CaptureReject =>
        /\ CamMarkersKept
        /\ cam'.viewportDimensions = cam.viewportDimensions
        /\ cam'.capturedImageData = Null /\ cam'.imageMetadata = Null
        /\ cam'.isCameraActive = cam.isCameraActive
        /\ cameraRunning' = cameraRunning
        /\ ~cam'.isLoading /\ capturePhase' = "idle"
        /\ (CaptureButtonShown(cam) => CaptureButtonShown(cam'))]_vars

\* a capture is in flight with the camera active and both markers placed:
\* the state in which the rejection arrives
C12_Witness ==
  /\ screen = "capture" /\ capturePhase = "capturing"
  /\ cam.isCameraActive /\ cam.isLoading
  /\ cam.ballViewportPos = Some(PointAt(1))
  /\ cam.holeViewportPos = Some(PointAt(2))
  /\ cam.viewportDimensions = Some(SurfaceAt(1))

\* both stored markers were placed while the surface had one and the same size
PlacedAtOneSize == fn.ball # Null /\ fn.ball = fn.hole

\* C13  View dimensions are those of tap time.  When a capture is confirmed
\* and both stored markers were placed on a surface of one size, the
\* coordinates handed off are the markers converted with that size.
C13_ViewDimensionsOfPlacement ==
  (screen = "results" /\ PlacedAtOneSize) =>
    LET image == Val(cam.imageMetadata)
        out == Val(page.markers)
    IN  /\ out.ball = ViewToImage(Val(cam.ballViewportPos), Val(fn.ball), image)
        /\ out.hole = ViewToImage(Val(cam.holeViewportPos), Val(fn.hole), image)

\* the level indicator is on screen (line 791)
LevelIndicatorShown == screen = "capture" /\ SurfaceShown(cam) /\ cam.isCameraActive

\* C14  While no orientation sample has been delivered (permission denied,
\* or no event yet), the level indicator shows no tier better than bad and
\* no feedback pulse of a tier better than bad has been emitted.
C14_NoTierWithoutSample ==
  lastSample = << >> =>
    /\ LevelIndicatorShown => getLevelStatus(cam.deviceOrientation) = "bad"
    /\ \A i \in 1..Len(pulses) : pulses[i] = ImpactStyle("bad")

\* the pointer session of the capture screen is idle
CamSessionIdle(c) ==
  c.isDragging = "null" /\ c.touchPosition = Null /\ c.longPressTimer = "null"
\* the same on the still-image screen
SelSessionIdle(c) ==
  ~c.isDragging /\ c.draggedMarker = "null" /\ c.touchPosition = Null
    /\ c.longPressTimerRef = "null"

\* C15  Pointer cancellation.  When the touch is cancelled during a placement
\* or drag session, the session is idle afterwards (no drag, no tracked touch
\* position, no pending long-press timer) and the cancellation commits no
\* marker.
C15_CancelReturnsToIdle ==
  [][TouchCancel =>
        /\ screen = "capture" => CamSessionIdle(cam') /\ CamMarkersKept
        /\ screen = "selection" => SelSessionIdle(sel') /\ SelMarkersKept]_vars

\* the gateway answered 200 with text that is no JSON: the body of the
\* answer is none, or the content is a text of which neither the part between
\* its braces nor the whole parses
MalformedAnswer ==
  /\ screen = "edge" /\ fn.stage = "answered" /\ fn.answer.ok
  /\ \/ fn.answer.body # "json"
     \/ /\ fn.answer.content # << >>
        /\ JSONParse(fn.answer.content[1]) = << >>
        /\ \/ MatchBraces(fn.answer.content[1]) = << >>
           \/ JSONParse(MatchBraces(fn.answer.content[1])[1]) = << >>

\* C16  Malformed analysis response.  Whenever the gateway answers
\* successfully with text that cannot be parsed as JSON, the function answers
\* 200 with the fixed fallback (putting line with direction, break and
\* confidence, and exactly 4 recommendations), never with an error.
C16_MalformedGivesFallback ==
  MalformedAnswer =>
    /\ fn.response.status = 200
    /\ fn.response.body = FallbackAnalysis
    /\ Len(FallbackAnalysis.recommendations) = 4

C19_HandOffTogether ==
  /\ [](/\ page = PageInit \/ ResultsRendered(page)
        /\ screen = "results" <=> ResultsRendered(page)
        /\ screen = "results" <=> fn.mounted)
  /\ [][(screen' = "results" /\ screen # "results") =>
          /\ ~ConfirmCaptureReturns(cam)
          /\ page' = handleCapture(confirmCapture(cam))]_vars
  /\ [][R_ClickAnotherGreen => (page' = PageInit /\ screen' = "capture")]_vars
\* the analysis is shown with the button that starts over
C19_Witness ==
  /\ screen = "results" /\ ResultsRendered(page) /\ AnotherGreenShown(fn)

\* C18: a conversion never hands off or renders a coordinate that is not a
\* finite number, and when the view space it converts from has a width or
\* height of zero the conversion is skipped: the markers handed off are the
\* ones recorded.
C18_DegenerateSpaceSkipped ==
  (screen = "functions" /\ fn.op = "convert" /\ fn.stage # "view") =>
    /\ IsFinite(fn.q.x) /\ IsFinite(fn.q.y)
    /\ fn.stage = "display" => (IsFinite(fn.r.x) /\ IsFinite(fn.r.y))
    /\ ~NonDegenerate(fn.A) => fn.q = PtOf(fn.p)

\* the control point C20 gives ball b and hole h
C20_Control(b, h) ==
  LET two == Int2Num(2)
      fraction == Rat(15, 100)
  IN  [x |-> NAdd(NDiv(NAdd(b.x, h.x), two), NMul(fraction, NSub(h.y, b.y))),
       y |-> NSub(NDiv(NAdd(b.y, h.y), two), NMul(fraction, NSub(h.x, b.x)))]
\* the square of the distance between two points
C20_DistSq(p, q) ==
  NAdd(NMul(NSub(q.x, p.x), NSub(q.x, p.x)), NMul(NSub(q.y, p.y), NSub(q.y, p.y)))

\* C20: for ball b and hole h at different points of the display the path
\* runs from b to h with the control point midpoint(b, h) + 0.15 * (h.y - b.y,
\* -(h.x - b.x)), which lies at 0.15 * |h - b| from the midpoint (compared
\* as squares, 0.0225 * |h - b|^2); nothing but b and h enters.  Stated in
\* exact arithmetic: the rounding of doubles is not followed.
C20_BreakControlPoint ==
  (/\ screen = "functions" /\ fn.op = "path" /\ fn.stage = "drawn"
   /\ fn.ball # fn.hole)
    => LET b == PtOf(fn.ball)
           h == PtOf(fn.hole)
           mid == [x |-> NDiv(NAdd(b.x, h.x), Int2Num(2)),
                   y |-> NDiv(NAdd(b.y, h.y), Int2Num(2))]
       IN  /\ fn.path.start = b /\ fn.path.end = h
           /\ fn.path.control = C20_Control(b, h)
           /\ C20_DistSq(mid, fn.path.control)
                = NMul(Rat(9, 400), C20_DistSq(b, h))
\* a path of irrational length, from (0, 0) to (1, 2), has been drawn
C20_Witness ==
  /\ screen = "functions" /\ fn.op = "path" /\ fn.stage = "drawn"
  /\ fn.ball = <<0, 0>> /\ fn.hole = <<1, 2>>
  /\ fn.path.control = [x |-> Rat(4, 5), y |-> Rat(17, 20)]

\* the values the retake button clears
RetakeCleared(c) ==
  /\ c.capturedImageData = Null /\ c.imageMetadata = Null
  /\ c.ballViewportPos = Null /\ c.holeViewportPos = Null
  /\ c.ballPreviewPos = Null /\ c.holePreviewPos = Null
  /\ c.viewportDimensions = Null

\* C21: a click on the retake button of the review clears the captured
\* image, its metadata, both markers, both preview positions and the view
\* dimensions in that one event and calls startCamera once; the capture
\* surface is shown again, and when that start succeeds on the state the
\* click left, the camera is active and no marker is set.
C21_RetakeClearsAndRestarts ==
  [][ClickRetake =>
       /\ RetakeCleared(cam')
       /\ startPending' = startPending + 1
       /\ SurfaceShown(cam')
       /\ LET started == StartCameraSettled(cam', TRUE)
          IN  /\ started.isCameraActive /\ SurfaceShown(started)
              /\ RetakeCleared(started)]_vars
\* the review is shown with both markers, their preview positions and the
\* view dimensions stored, and the retake button can be clicked
C21_Witness ==
  /\ screen = "capture" /\ ReviewShown(cam) /\ touch = "none"
  /\ startPending < MaxPending
  /\ cam.ballViewportPos # Null /\ cam.holeViewportPos # Null
  /\ cam.ballPreviewPos # Null /\ cam.holePreviewPos # Null
  /\ cam.viewportDimensions # Null

\* C22: a click on the cancel button shows the instructions again, calls
\* stopCamera, and leaves none of the session's values set: markers, preview
\* positions, captured image, metadata, view dimensions, drag, tracked touch
\* position and the loading flag.
C22_CancelLeavesNothing ==
  [][ClickCancel =>
       /\ cam'.showInstructions
       /\ stopPending' = stopPending + 1
       /\ RetakeCleared(cam')
       /\ cam'.isDragging = "null"
       /\ cam'.touchPosition = Null
       /\ ~cam'.isLoading]_vars

\* C23: in a tap on the surface (no drag active) touchstart and touchmove
\* set no marker: touchstart writes the tracked touch position and, when none
\* is stored, the view dimensions; touchmove writes the tracked touch position
\* only.  The touchend that the handler accepts places the marker at the
\* tracked position and clears that position.  Likewise on the still image.
C23_TapCommitsOnRelease ==
  /\ [][TouchStartSurface =>
          /\ cam' = [cam EXCEPT !.touchPosition = cam'.touchPosition,
                                !.viewportDimensions = cam'.viewportDimensions]
          /\ cam.viewportDimensions # Null =>
               cam'.viewportDimensions = cam.viewportDimensions]_vars
  /\ [][(TouchMove /\ touch = "surface" /\ cam.isDragging = "null") =>
          cam' = [cam EXCEPT !.touchPosition = cam'.touchPosition]]_vars
  /\ [][(TouchEnd /\ touch = "surface" /\ cam.touchPosition # Null
           /\ ~SurfaceHandlerReturns(cam)) =>
          /\ cam'.touchPosition = Null
          /\ cam.ballViewportPos = Null =>
               (cam'.ballViewportPos = cam.touchPosition
                  /\ cam'.holeViewportPos = cam.holeViewportPos)
          /\ (cam.ballViewportPos # Null /\ cam.holeViewportPos = Null) =>
               (cam'.holeViewportPos = cam.touchPosition
                  /\ cam'.ballViewportPos = cam.ballViewportPos)]_vars
  /\ [][MS_TouchStartSurface =>
          sel' = [sel EXCEPT !.touchPosition = sel'.touchPosition]]_vars
  /\ [][(MS_TouchMove /\ touch = "surface" /\ ~sel.isDragging) =>
          sel' = [sel EXCEPT !.touchPosition = sel'.touchPosition]]_vars
  /\ [][(MS_TouchEnd /\ touch = "surface" /\ sel.touchPosition # Null
           /\ ~sel.isDragging) =>
          /\ sel'.touchPosition = Null
          /\ sel.ballPosition = Null =>
               (sel'.ballPosition = sel.touchPosition
                  /\ sel'.holePosition = sel.holePosition)
          /\ (sel.ballPosition # Null /\ sel.holePosition = Null) =>
               (sel'.holePosition = sel.touchPosition
                  /\ sel'.ballPosition = sel.ballPosition)]_vars
\* a touch on the surface is down with the ball placed, the hole not, and
\* the position tracked is not the ball's
C23_Witness ==
  /\ screen = "capture" /\ touch = "surface" /\ ~SurfaceHandlerReturns(cam)
  /\ cam.ballViewportPos = Some(PointAt(1)) /\ cam.holeViewportPos = Null
  /\ cam.touchPosition = Some(PointAt(2))

\* a finger is down on the marker
PointerOn(marker) == touch = marker \/ fn.second = marker

\* C24: a drag is active only while the finger that pressed the dragged
\* marker is still down on it: whenever isDragging names a marker, a finger
\* is down on that marker, for every interleaving of presses on the two
\* markers, timer firings and releases.
C24_DragOnlyWhilePressed ==
  (screen = "capture" /\ cam.isDragging # "null") => PointerOn(cam.isDragging)

\* the long-press timers set and neither fired nor cleared
PendingTimers ==
  leakedTimers \cup
    (IF cam.longPressTimer = "null" THEN {} ELSE {cam.longPressTimer})

\* C25: at most one long-press timer is pending, and it is the one the timer
\* ref names, which the next release clears: no timer is pending that a
\* second press has replaced in the ref.
C25_NoLeakedTimer ==
  screen = "capture" =>
    /\ Cardinality(PendingTimers) <= 1
    /\ leakedTimers = {}

\* C26: the magnifier is shown only while a finger is down on the surface
\* and a marker is unset or a drag is active; it is shown during every drag
\* (isDragging names the marker the finger is down on); and with no finger
\* down no touch position is tracked.
C26_MagnifierVisibility ==
  screen = "capture" =>
    /\ MagnifierShown(cam) =>
         /\ touch \in {"surface", "ball", "hole"}
         /\ \/ cam.ballViewportPos = Null \/ cam.holeViewportPos = Null
            \/ cam.isDragging # "null"
    /\ (cam.isDragging # "null" /\ touch = cam.isDragging) => MagnifierShown(cam)
    /\ touch = "none" => cam.touchPosition = Null

\* no CameraPreview call is in flight
DeviceSettled ==
  startPending = 0 /\ stopPending = 0 /\ capturePhase \in {"idle", "lost"}

\* C27: on the instructions (before the first start or after cancel) and on
\* the review (after a capture), once every start and stop has settled the
\* native preview is stopped and isCameraActive is false, whatever the order
\* in which an in-flight start and a stop settled.
C27_DeviceStoppedOffSurface ==
  (screen = "capture" /\ DeviceSettled /\ ~SurfaceShown(cam)) =>
    /\ ~cameraRunning
    /\ ~cam.isCameraActive

\* the number of markers set
MarkerCount(ballPos, holePos) ==
  (IF ballPos = Null THEN 0 ELSE 1) + (IF holePos = Null THEN 0 ELSE 1)

\* C28: a tap on the capture surface (touchstart, touchend and the click
\* that follows) sets at most one marker more than were set when it began,
\* whether it lands on the bare surface or on a marker.
C28_OneTapOneMarker ==
  (screen = "capture" /\ fn.phase = "done") =>
    MarkerCount(cam.ballViewportPos, cam.holeViewportPos)
      <= MarkerCount(fn.ball, fn.hole) + 1

\* C29: whenever the review is shown, both markers and the view dimensions
\* are set: confirmCapture does not return at its guard.
C29_ReviewHandsOff ==
  (screen = "capture" /\ ReviewShown(cam)) => ~ConfirmCaptureReturns(cam)

\* C30: the loading flag is set only while an outcome of the capture is
\* still to come (the capture request or the decoding of its image is in
\* flight): every outcome that has arrived has cleared it.
C30_CaptureCompletes ==
  (screen = "capture" /\ cam.isLoading) => CaptureInFlight

=============================================================================
